---- MODULE Spec2Model ----
(***************************************************************************)
(* DocProcAiService (src/service/DocProcAiService.py): the background task *)
(* queue and its worker thread, the ingestion task, the synchronous        *)
(* linking run, and the deletion of a media record's entries, over the     *)
(* three tables documents, videos and media_record_links.                  *)
(*                                                                         *)
(* Every SQL statement is one atomic step (the connection is autocommit);  *)
(* the statements of one Python function interleave with those of the      *)
(* worker thread and of other caller threads.                              *)
(***************************************************************************)
EXTENDS Integers, Sequences, FiniteSets

(***************************************************************************)
(* Bounds of the model.                                                    *)
(***************************************************************************)
\* Spec: calls (enqueue ingest, link content, delete) made in a run
MaxCalls == 4
\* SpecSeq: calls made in a run, all on one caller thread
MaxCallsSeq == 5
\* SpecQueue: puts on the background queue in a run
MaxCallsQueue == 5
\* SpecSearch: calls in a run, and the largest count a search asks for
MaxCallsSearch == 3
MaxCount == 2
\* SpecTrip: calls in a run
MaxCallsTrip == 4
\* SpecPdf: pages of a pdf
MaxPages == 3
\* SpecFail: calls in a run
MaxCallsFail == 3
\* SpecDrain: items waiting in the queue at a time
MaxQueueLen == 4
\* SpecLinks: calls in a run
MaxCallsLinks == 5

(***************************************************************************)
(* The environment: media records known to the media service, what the     *)
(* embedding generators return for them, content ids, caller threads.      *)
(***************************************************************************)
\* media record ids (uuids, written as numbers): a lecture's slides, its
\* recording, and a record of a type the service does not ingest
DocRecord == 1
VideoRecord == 2
QuizRecord == 3
MediaRecords == {DocRecord, VideoRecord, QuizRecord}

\* gen_random_uuid(): the n-th generated segment id, distinct from every
\* uuid in use (media record ids included)
GenRandomUuid(n) == Cardinality(MediaRecords) + n

\* two more records, used where requests keep coming: slides without any text
\* and a recording without any section, so their ingestion stores nothing
BlankDocument == -1
BlankVideo == -2
BlankRecords == {BlankDocument, BlankVideo}

\* media_record["type"] as the media service reports it
RecordType(m) ==
    CASE m = DocRecord -> "DOCUMENT"
      [] m = VideoRecord -> "VIDEO"
      [] m = BlankDocument -> "DOCUMENT"
      [] m = BlankVideo -> "VIDEO"
      [] OTHER -> "QUIZ"

\* segment texts: TextB is TextA with one character appended (ratio 20/21),
\* TextC is TextB with its last two characters removed (ratio 18/20: just 0.9)
TextA == <<"a", "a", "a", "a", "a", "a", "a", "a", "a", "a">>
TextB == <<"a", "a", "a", "a", "a", "a", "a", "a", "a", "a", "b">>
TextC == <<"a", "a", "a", "a", "a", "a", "a", "a", "a">>

\* what the video's speaker says in its one section
TextT == <<"t">>

\* sentence embeddings, of length 1: of the three segment texts and of the
\* query texts a search is made with
EmbA == <<1, 0>>
EmbB == <<0, 1>>
EmbC == <<-1, 0>>
QueryTexts == {"q1", "q2"}
SentenceEmbedding(query_text) == IF query_text = "q1" THEN <<1, 0>> ELSE <<0, 1>>

\* generate_embedding(download_url): one result per page, deterministic
PdfEmbeddingResults(m) ==
    IF m = DocRecord THEN << [text |-> TextA, page_number |-> 0, embedding |-> EmbA],
                             [text |-> TextC, page_number |-> 1, embedding |-> EmbC] >>
    ELSE << >>

\* generate_embeddings(download_url): one result per video section
VideoEmbeddingResults(m) ==
    IF m = VideoRecord THEN << [screen_text |-> TextB, transcript |-> TextT,
                                start_time |-> 0, embedding |-> EmbB] >>
    ELSE << >>

Contents == {"c1", "c2"}
\* the media_record_ids lists link requests are made with
LinkIdLists == {{DocRecord, VideoRecord}, {DocRecord}}
Callers == {"t1", "t2"}

VARIABLES
    documents,   \* table documents: set of rows
    videos,      \* table videos: set of rows
    links,       \* table media_record_links: sequence of rows (no key: duplicates possible)
    generated,   \* the media record and text of every segment inserted so far, in
                 \* order of insertion: the n-th one got the n-th generated id
    queue,       \* _background_task_queue.queue: the heap list
    enqueued,    \* number of put() calls so far
    callsLeft,   \* calls still allowed in this run
    wpc,         \* worker thread: "get" | "ingest" | "crashed" | "exited"
    wtask,       \* the item the worker dequeued last
    wres,        \* embedding results the running task has still to insert
    cpc,         \* caller thread: "idle" | "off" | "link_check" | "link_insert"
                 \*                | "del_docs" | "del_videos" | "search_return"
                 \*                | "links_resolve" | "links_return"
    creq,        \* caller thread: arguments of the running call
    snap,        \* caller thread: the (segment, other_segment) pairs of the running
                 \* linking run, from its query_result, in the order the loops visit them
    lpos,        \* caller thread: index of the pair the linking run is at
    alone,       \* caller thread: no other thread has stepped since its call began
    keepAliveEvent,  \* the threading.Event the worker thread was started with: is it set
    keepAliveAttr,   \* self._keep_background_task_thread_alive: "event" | "False"
    werror,      \* the exception that ended the worker thread, if one did
    sreq,        \* caller thread: the arguments of its running semantic_search
    sres,        \* caller thread: query_result of its running semantic_search
    trip,        \* the round trip (ingest, delete, ingest again) watched for one record:
                 \* how far it has got, and the segment count its first ingestion left
    glres,       \* caller thread: the link rows its running get_media_record_links_for_content
                 \* selected
    glout,       \* caller thread: how that call ended, and the list it returns
    file,        \* PdfProcessor: the pdf given to process_from_io, as the text tika
                 \* extracts from each of its pages
    document_data,  \* PdfProcessor: what process_from_io returned, once it has
    wadded       \* rows the running ingestion task has added so far, per table

\* the variables the calls and the worker's tasks leave alone
pdfVars == << file, document_data >>
aux == << keepAliveEvent, keepAliveAttr, sreq, sres, glres, glout, pdfVars >>

vars == << documents, videos, links, generated, queue, enqueued, callsLeft, wpc, wtask,
           wres, cpc, creq, snap, lpos, alone, keepAliveEvent, keepAliveAttr, werror,
           wadded, sreq, sres, trip, glres, glout, file, document_data >>

NoTask == [priority |-> -1, media_record_id |-> 0, seq |-> 0]
NoneAdded == [documents |-> 0, videos |-> 0]
NoOutcome == [error |-> "none", value |-> << >>]
NoDocumentData == [returned |-> FALSE, pages |-> << >>]
\* no pdf is being processed
NoPdf == file = << >> /\ document_data = NoDocumentData
NoTrip == [record |-> 0, phase |-> "none", count |-> 0]
NoSearch == [query_text |-> "none", count |-> 0, blacklist |-> {}, whitelist |-> {}]
NoError == [exc |-> "none", type |-> "none"]
NoReq == [content_id |-> "none", ids |-> {}, media_record_id |-> 0]

(***************************************************************************)
(* queue.PriorityQueue: a heapq list of BackgroundTaskItem.  Positions are *)
(* heapq's 0-based positions; heap[p + 1] is the item at position p.       *)
(***************************************************************************)
\* BackgroundTaskItem.__lt__
ItemLt(a, b) == a.priority < b.priority

RECURSIVE SiftDownFrom(_, _, _, _)
\* heapq._siftdown: move newitem up from pos while it is less than its parent
SiftDownFrom(heap, startpos, pos, newitem) ==
    IF pos > startpos
    THEN LET parentpos == (pos - 1) \div 2
             parent == heap[parentpos + 1]
         IN IF ItemLt(newitem, parent)
            THEN SiftDownFrom([heap EXCEPT ![pos + 1] = parent], startpos, parentpos, newitem)
            ELSE [heap EXCEPT ![pos + 1] = newitem]
    ELSE [heap EXCEPT ![pos + 1] = newitem]

SiftDown(heap, startpos, pos) == SiftDownFrom(heap, startpos, pos, heap[pos + 1])

RECURSIVE SiftUpFrom(_, _, _, _)
\* heapq._siftup: bubble the smaller child up until a leaf, then sift newitem down
SiftUpFrom(heap, startpos, pos, newitem) ==
    LET endpos == Len(heap)
        childpos == 2 * pos + 1
        rightpos == childpos + 1
        chosen == IF rightpos < endpos /\ ~ItemLt(heap[childpos + 1], heap[rightpos + 1])
                  THEN rightpos ELSE childpos
    IN IF childpos < endpos
       THEN SiftUpFrom([heap EXCEPT ![pos + 1] = heap[chosen + 1]], startpos, chosen, newitem)
       ELSE SiftDown([heap EXCEPT ![pos + 1] = newitem], startpos, pos)

SiftUp(heap, pos) == SiftUpFrom(heap, pos, pos, heap[pos + 1])

\* PriorityQueue._put: heappush
HeapPush(heap, item) == SiftDown(Append(heap, item), 0, Len(heap))

\* PriorityQueue._get: heappop, the item returned
HeapPopItem(heap) == IF Len(heap) = 1 THEN heap[Len(heap)] ELSE heap[1]

\* PriorityQueue._get: heappop, the heap left
HeapPopRest(heap) ==
    LET lastelt == heap[Len(heap)]
        rest == SubSeq(heap, 1, Len(heap) - 1)
    IN IF rest = << >> THEN rest ELSE SiftUp([rest EXCEPT ![1] = lastelt], 0)

(***************************************************************************)
(* Levenshtein.ratio(a, b) = (len(a) + len(b) - d) / (len(a) + len(b)),    *)
(* d the insert/delete distance, that is 2 * lcs / (len(a) + len(b)).      *)
(***************************************************************************)
Max(x, y) == IF x >= y THEN x ELSE y

RECURSIVE Lcs(_, _)
Lcs(a, b) ==
    IF a = << >> \/ b = << >> THEN 0
    ELSE IF Head(a) = Head(b) THEN 1 + Lcs(Tail(a), Tail(b))
    ELSE Max(Lcs(Tail(a), b), Lcs(a, Tail(b)))

\* the threshold 0.9 of the linking run, as a fraction
ThresholdNum == 9
ThresholdDen == 10

\* a bug the comparison could have: >= for >
RatioAtLeastThreshold(a, b) ==
    IF Len(a) + Len(b) = 0 THEN TRUE
    ELSE ThresholdDen * 2 * Lcs(a, b) >= ThresholdNum * (Len(a) + Len(b))

\* levenshtein_ratio > 0.9
RatioAboveThreshold(a, b) ==
    IF Len(a) + Len(b) = 0 THEN TRUE
    ELSE ThresholdDen * 2 * Lcs(a, b) > ThresholdNum * (Len(a) + Len(b))

(***************************************************************************)
(* The store's queries.                                                    *)
(***************************************************************************)
RECURSIVE SortedById(_)
\* the rows of a table as a sequence, in the order they were inserted
SortedById(rows) ==
    IF rows = {} THEN << >>
    ELSE LET first == CHOOSE r \in rows : \A q \in rows : r.id <= q.id
         IN << first >> \o SortedById(rows \ {first})

\* the linking run's query: document rows, then video rows, of the given records
SegmentQuery(ids) ==
    LET docs == { [id |-> d.id, mediaRecordId |-> d.media_record, source |-> "document",
                   text |-> d.text] : d \in {x \in documents : x.media_record \in ids} }
        vids == { [id |-> v.id, mediaRecordId |-> v.media_record, source |-> "video",
                   text |-> v.screen_text] : v \in {x \in videos : x.media_record \in ids} }
    IN SortedById(docs) \o SortedById(vids)

\* a bug the existence query could have: no row is ever found
DoesLinkExistNever(table, id1, id2) == FALSE

\* a bug the existence query could have: the second direction left out
DoesLinkExistOneWay(table, id1, id2) ==
    \E i \in 1..Len(table) : table[i].segment1_id = id1 /\ table[i].segment2_id = id2

\* does_link_between_media_record_segments_exist: either direction, any content_id
DoesLinkExist(table, id1, id2) ==
    \E i \in 1..Len(table) :
        \/ table[i].segment1_id = id1 /\ table[i].segment2_id = id2
        \/ table[i].segment1_id = id2 /\ table[i].segment2_id = id1

\* create_link_between_media_record_segments
CreateLink(table, content_id, segment_id, other_segment_id) ==
    Append(table, [content_id |-> content_id, segment1_id |-> segment_id,
                   segment2_id |-> other_segment_id])

\* DELETE FROM media_record_links WHERE segment1_id = %(media_record_id)s
\*                                   OR segment2_id = %(media_record_id)s
DeleteLinksOf(table, media_record_id) ==
    SelectSeq(table, LAMBDA l : ~(l.segment1_id = media_record_id
                                  \/ l.segment2_id = media_record_id))

(***************************************************************************)
(* The linking run's iteration.                                            *)
(***************************************************************************)
RECURSIVE GroupKeys(_, _)
\* the keys of media_records_segments, in the order the dict got them
GroupKeys(result, seen) ==
    IF result = << >> THEN << >>
    ELSE IF Head(result).mediaRecordId \in seen THEN GroupKeys(Tail(result), seen)
    ELSE << Head(result).mediaRecordId >>
         \o GroupKeys(Tail(result), seen \cup {Head(result).mediaRecordId})

RECURSIVE GroupedFrom(_, _)
GroupedFrom(result, keys) ==
    IF keys = << >> THEN << >>
    ELSE SelectSeq(result, LAMBDA r : r.mediaRecordId = Head(keys))
         \o GroupedFrom(result, Tail(keys))

\* the segments in the order "for media_record_id, segments in items(): for segment"
Grouped(result) == GroupedFrom(result, GroupKeys(result, {}))

\* a bug the loop could have: the other record is never skipped
SkipNever(media_record_id, other_media_record_id) == FALSE

\* "if other_media_record_id == media_record_id: continue"
SkipOther(media_record_id, other_media_record_id) ==
    other_media_record_id = media_record_id

\* the (segment, other_segment) pairs the innermost loop body runs for, in order
Pairs(result) ==
    LET g == Grouped(result)
        n == Len(g)
        all == [k \in 1..(n * n) |-> << g[((k - 1) \div n) + 1], g[((k - 1) % n) + 1] >>]
    IN SelectSeq(all, LAMBDA p : ~SkipOther(p[1].mediaRecordId, p[2].mediaRecordId))

(***************************************************************************)
(* Initial states: the tables are empty, the queue is empty, the worker    *)
(* thread has been started, no call is running.                            *)
(***************************************************************************)
InitStore ==
    /\ documents = {}
    /\ videos = {}
    /\ links = << >>
    /\ generated = << >>
    /\ queue = << >>
    /\ enqueued = 0
    /\ wpc = "get"
    /\ wtask = NoTask
    /\ wres = << >>
    /\ creq = [c \in Callers |-> NoReq]
    /\ snap = [c \in Callers |-> << >>]
    /\ lpos = [c \in Callers |-> 0]
    /\ alone = [c \in Callers |-> FALSE]
    /\ keepAliveEvent = TRUE
    /\ keepAliveAttr = "event"
    /\ werror = NoError
    /\ wadded = NoneAdded
    /\ sreq = [c \in Callers |-> NoSearch]
    /\ sres = [c \in Callers |-> << >>]
    /\ glres = [c \in Callers |-> << >>]
    /\ glout = [c \in Callers |-> NoOutcome]

\* requests arrive on every caller thread
Init ==
    /\ InitStore
    /\ NoPdf
    /\ trip = NoTrip
    /\ callsLeft = MaxCalls
    /\ cpc = [c \in Callers |-> "idle"]

\* requests arrive on one caller thread: the calls are sequential
InitSeq ==
    /\ InitStore
    /\ NoPdf
    /\ trip = NoTrip
    /\ callsLeft = MaxCallsSeq
    /\ cpc = [c \in Callers |-> IF c = "t1" THEN "idle" ELSE "off"]

\* the number of segments stored for a media record
SegmentCount(m) ==
    Cardinality({d \in documents : d.media_record = m})
    + Cardinality({v \in videos : v.media_record = m})

\* the watched round trip after an event on media record m: its ingestion
\* task starts ("start") or returns ("finish"), a delete call for it begins
\* ("delete") or has made its last DELETE ("deleted").  The trip begins with
\* an ingestion of the record while none of its segments is stored; any
\* event out of turn voids it.
TripAfter(event, m) ==
    IF m # trip.record \/ trip.phase = "void" THEN trip
    ELSE IF trip.phase = "none"
    THEN IF event = "start" /\ SegmentCount(m) = 0
         THEN [trip EXCEPT !.phase = "ingesting"] ELSE trip
    ELSE IF trip.phase = "ingesting" /\ event = "finish"
    THEN [trip EXCEPT !.phase = "ingested", !.count = SegmentCount(m)]
    ELSE IF trip.phase = "ingested" /\ event = "delete"
    THEN [trip EXCEPT !.phase = "deleting"]
    ELSE IF trip.phase = "deleting" /\ event = "deleted"
    THEN [trip EXCEPT !.phase = "deleted"]
    ELSE IF trip.phase = "deleted" /\ event = "start"
    THEN [trip EXCEPT !.phase = "reingesting"]
    ELSE IF trip.phase = "reingesting" /\ event = "finish"
    THEN [trip EXCEPT !.phase = "reingested"]
    ELSE [trip EXCEPT !.phase = "void"]

\* thread t steps: every other thread's running call is no longer alone
Touch(t) == [d \in Callers |-> IF d = t THEN alone[d] ELSE FALSE]

(***************************************************************************)
(* enqueue_ingest_media_record_task(media_record_id), on a caller thread   *)
(***************************************************************************)
IngestPriority == 0

EnqueueIngest(c, m) ==
    /\ cpc[c] = "idle"
    /\ callsLeft > 0
    /\ queue' = HeapPush(queue, [priority |-> IngestPriority, media_record_id |-> m,
                                 seq |-> enqueued + 1])
    /\ enqueued' = enqueued + 1
    /\ callsLeft' = callsLeft - 1
    /\ alone' = Touch(c)
    /\ UNCHANGED << aux, werror, wadded >>
    /\ UNCHANGED << documents, videos, links, generated, wpc, wtask, wres, cpc, creq,
                    snap, lpos >>
    /\ UNCHANGED trip

\* the same call where requests never stop: the run is not limited in its
\* calls but in the items waiting at a time, and one item only is followed
\* (seq 1; every other item has seq 0)
EnqueueIngestSteady(c, m, follow) ==
    /\ cpc[c] = "idle"
    /\ Len(queue) < MaxQueueLen
    /\ follow => enqueued = 0
    /\ queue' = HeapPush(queue, [priority |-> IngestPriority, media_record_id |-> m,
                                 seq |-> IF follow THEN 1 ELSE 0])
    /\ enqueued' = IF follow THEN 1 ELSE enqueued
    /\ alone' = Touch(c)
    /\ UNCHANGED << aux, werror, wadded, trip >>
    /\ UNCHANGED << documents, videos, links, generated, callsLeft, wpc, wtask, wres, cpc,
                    creq, snap, lpos >>

(***************************************************************************)
(* _background_task_runner, the worker thread, running                     *)
(* ingest_media_record_task                                                *)
(***************************************************************************)
\* a bug the dispatch could have: every record taken for a PDF
IsPdfTypeAlways(record_type) == TRUE

\* record_type == "PRESENTATION" or record_type == "DOCUMENT"
IsPdfType(record_type) == record_type \in {"PRESENTATION", "DOCUMENT"}

\* a bug the dispatch could have: "else" for "elif record_type == VIDEO"
IsVideoTypeElse(record_type) == TRUE

\* elif record_type == "VIDEO"
IsVideoType(record_type) == record_type = "VIDEO"

\* the embedding results the task goes on to insert
EmbeddingResults(m) ==
    IF IsPdfType(RecordType(m)) THEN PdfEmbeddingResults(m)
    ELSE VideoEmbeddingResults(m)

\* one round of "while keep_alive.is_set()": the loop ends when the event is
\* not set; else task_queue.get succeeds (a get that times out changes
\* nothing), the task resolves the record and generates the embeddings, or
\* raises ValueError, which nothing catches: the thread ends
WorkerStart ==
    /\ wpc = "get"
    /\ IF ~keepAliveEvent
       THEN /\ wpc' = "exited"
            /\ UNCHANGED << queue, wtask, wres, werror, trip >>
       ELSE /\ queue # << >>
            /\ LET item == HeapPopItem(queue)
                   m == item.media_record_id
               IN /\ queue' = HeapPopRest(queue)
                  /\ wtask' = item
                  /\ trip' = TripAfter("start", m)
                  /\ IF IsPdfType(RecordType(m)) \/ IsVideoType(RecordType(m))
                     THEN wpc' = "ingest" /\ wres' = EmbeddingResults(m)
                                         /\ werror' = werror
                     ELSE /\ wpc' = "crashed"
                          /\ wres' = << >>
                          /\ werror' = [exc |-> "ValueError", type |-> RecordType(m)]
    /\ alone' = [d \in Callers |-> FALSE]
    /\ UNCHANGED << aux, wadded >>
    /\ UNCHANGED << documents, videos, links, generated, enqueued, callsLeft, cpc, creq,
                    snap, lpos >>

\* one INSERT INTO documents / videos; after the last one the task returns
WorkerInsert ==
    /\ wpc = "ingest"
    /\ wres # << >>
    /\ LET r == Head(wres)
           m == wtask.media_record_id
           id == GenRandomUuid(Len(generated) + 1)
       IN IF IsPdfType(RecordType(m))
          THEN /\ documents' = documents \cup
                      {[id |-> id, text |-> r.text, media_record |-> m, page |-> r.page_number,
                        embedding |-> r.embedding]}
               /\ videos' = videos
          ELSE /\ videos' = videos \cup
                      {[id |-> id, screen_text |-> r.screen_text, transcript |-> r.transcript,
                        media_record |-> m, start_time |-> r.start_time,
                        embedding |-> r.embedding]}
               /\ documents' = documents
    /\ generated' = Append(generated,
                           [media_record |-> wtask.media_record_id,
                            text |-> IF IsPdfType(RecordType(wtask.media_record_id))
                                     THEN Head(wres).text ELSE Head(wres).screen_text])
    /\ wres' = Tail(wres)
    /\ alone' = [d \in Callers |-> FALSE]
    /\ wadded' = [documents |-> wadded.documents + Cardinality(documents' \ documents),
                  videos |-> wadded.videos + Cardinality(videos' \ videos)]
    /\ UNCHANGED << aux, werror >>
    /\ UNCHANGED << links, queue, enqueued, callsLeft, wpc, wtask, cpc, creq, snap, lpos >>
    /\ UNCHANGED trip

\* the ids the running task's INSERTs have got so far
TaskIds ==
    {GenRandomUuid(n) :
        n \in (Len(generated) - (wadded.documents + wadded.videos) + 1)..Len(generated)}

\* a bug the task could have: its INSERTs in one transaction, undone on error
RolledBackOnError(table, task_ids) == {x \in table : x.id \notin task_ids}

\* the connection is in autocommit mode: a failing statement leaves what the
\* statements before it have written
KeptOnError(table, task_ids) == table

\* an INSERT of the task fails (the database raises): the error leaves the
\* task, asyncio.run and the worker's loop, which catches nothing
WorkerInsertFails ==
    /\ wpc = "ingest"
    /\ wres # << >>
    /\ documents' = KeptOnError(documents, TaskIds)
    /\ videos' = KeptOnError(videos, TaskIds)
    /\ wpc' = "crashed"
    /\ wres' = << >>
    /\ werror' = [exc |-> "psycopg.Error", type |-> "none"]
    /\ alone' = [d \in Callers |-> FALSE]
    /\ UNCHANGED << aux, wadded, trip >>
    /\ UNCHANGED << links, generated, queue, enqueued, callsLeft, wtask, cpc, creq, snap,
                    lpos >>

\* the embedding generator raises: no INSERT of the task has been made yet,
\* the list of results is whole before the loop over it starts
WorkerGenerateFails ==
    /\ wpc = "get"
    /\ keepAliveEvent
    /\ queue # << >>
    /\ LET item == HeapPopItem(queue)
           m == item.media_record_id
       IN /\ IsPdfType(RecordType(m)) \/ IsVideoType(RecordType(m))
          /\ queue' = HeapPopRest(queue)
          /\ wtask' = item
          /\ trip' = TripAfter("start", m)
    /\ wpc' = "crashed"
    /\ wres' = << >>
    /\ werror' = [exc |-> "GeneratorError", type |-> "none"]
    /\ alone' = [d \in Callers |-> FALSE]
    /\ UNCHANGED << aux, wadded >>
    /\ UNCHANGED << documents, videos, links, generated, enqueued, callsLeft, cpc, creq,
                    snap, lpos >>

\* the task returns; task_queue.task_done(), and the loop goes round
WorkerFinish ==
    /\ wpc = "ingest"
    /\ wres = << >>
    /\ wpc' = "get"
    /\ wtask' = NoTask
    /\ alone' = [d \in Callers |-> FALSE]
    /\ wadded' = NoneAdded
    /\ UNCHANGED << aux, werror >>
    /\ UNCHANGED << documents, videos, links, generated, queue, enqueued, callsLeft, wres,
                    cpc, creq, snap, lpos >>
    /\ trip' = TripAfter("finish", wtask.media_record_id)

(***************************************************************************)
(* enqueue_generate_content_media_record_links(content_id,                 *)
(* media_record_ids): generate_content_media_record_links_task is called   *)
(* on the caller thread, the put() is commented out                        *)
(***************************************************************************)
LinkPriority == 1

\* the run returns
LinkReturn(c) ==
    /\ cpc' = [cpc EXCEPT ![c] = "idle"]
    /\ creq' = [creq EXCEPT ![c] = NoReq]
    /\ snap' = [snap EXCEPT ![c] = << >>]
    /\ lpos' = [lpos EXCEPT ![c] = 0]

\* the innermost loop goes to the next pair, or the run returns
LinkAdvance(c) ==
    IF lpos[c] = Len(snap[c])
    THEN LinkReturn(c)
    ELSE /\ cpc' = [cpc EXCEPT ![c] = "link_check"]
         /\ lpos' = [lpos EXCEPT ![c] = lpos[c] + 1]
         /\ UNCHANGED << creq, snap >>

\* the SELECT of the segments, and the grouping
LinkStart(c, content_id, ids) ==
    /\ cpc[c] = "idle"
    /\ callsLeft > 0
    /\ callsLeft' = callsLeft - 1
    /\ LET pairs == Pairs(SegmentQuery(ids))
       IN IF pairs = << >>
          THEN UNCHANGED << cpc, creq, snap, lpos >>
          ELSE /\ cpc' = [cpc EXCEPT ![c] = "link_check"]
               /\ creq' = [creq EXCEPT ![c] = [content_id |-> content_id, ids |-> ids,
                                               media_record_id |-> 0]]
               /\ snap' = [snap EXCEPT ![c] = pairs]
               /\ lpos' = [lpos EXCEPT ![c] = 1]
    /\ alone' = Touch(c)
    /\ UNCHANGED << aux, werror, wadded >>
    /\ UNCHANGED << documents, videos, links, generated, queue, enqueued, wpc,
                    wtask, wres >>
    /\ UNCHANGED trip

\* the existence query for the pair, then the ratio of the two texts
LinkCheck(c) ==
    /\ cpc[c] = "link_check"
    /\ LET p == snap[c][lpos[c]]
       IN IF DoesLinkExist(links, p[1].id, p[2].id)
          THEN LinkAdvance(c)
          ELSE IF RatioAboveThreshold(p[1].text, p[2].text)
               THEN /\ cpc' = [cpc EXCEPT ![c] = "link_insert"]
                    /\ UNCHANGED << creq, snap, lpos >>
               ELSE LinkAdvance(c)
    /\ alone' = Touch(c)
    /\ UNCHANGED << aux, werror, wadded >>
    /\ UNCHANGED << documents, videos, links, generated, queue, enqueued, callsLeft, wpc,
                    wtask, wres >>
    /\ UNCHANGED trip

\* the INSERT INTO media_record_links for the pair
LinkInsert(c) ==
    /\ cpc[c] = "link_insert"
    /\ LET p == snap[c][lpos[c]]
       IN links' = CreateLink(links, creq[c].content_id, p[1].id, p[2].id)
    /\ LinkAdvance(c)
    /\ alone' = Touch(c)
    /\ UNCHANGED << aux, werror, wadded >>
    /\ UNCHANGED << documents, videos, generated, queue, enqueued, callsLeft, wpc, wtask,
                    wres >>
    /\ UNCHANGED trip

(***************************************************************************)
(* delete_entries_of_media_record(media_record_id), on a caller thread:    *)
(* three DELETE statements                                                 *)
(***************************************************************************)
\* a bug the statements could have: no WHERE, every row goes
DeleteRowsOfAll(table, media_record_id) == {}

\* a bug the statements could have: a condition that no row meets
DeleteRowsOfNone(table, media_record_id) == table

\* DELETE FROM documents / videos WHERE media_record = %(media_record_id)s
DeleteRowsOf(table, media_record_id) ==
    {x \in table : x.media_record # media_record_id}

DeleteStart(c, m) ==
    /\ cpc[c] = "idle"
    /\ callsLeft > 0
    /\ callsLeft' = callsLeft - 1
    /\ links' = DeleteLinksOf(links, m)
    /\ cpc' = [cpc EXCEPT ![c] = "del_docs"]
    /\ creq' = [creq EXCEPT ![c] = [content_id |-> "none", ids |-> {}, media_record_id |-> m]]
    /\ alone' = [d \in Callers |-> d = c]
    /\ UNCHANGED << aux, werror, wadded >>
    /\ UNCHANGED << documents, videos, generated, queue, enqueued, wpc, wtask,
                    wres, snap, lpos >>
    /\ trip' = TripAfter("delete", m)

DeleteDocs(c) ==
    /\ cpc[c] = "del_docs"
    /\ documents' = DeleteRowsOf(documents, creq[c].media_record_id)
    /\ cpc' = [cpc EXCEPT ![c] = "del_videos"]
    /\ alone' = Touch(c)
    /\ UNCHANGED << aux, werror, wadded >>
    /\ UNCHANGED << videos, links, generated, queue, enqueued, callsLeft, wpc, wtask, wres,
                    creq, snap, lpos >>
    /\ UNCHANGED trip

DeleteVideos(c) ==
    /\ cpc[c] = "del_videos"
    /\ videos' = DeleteRowsOf(videos, creq[c].media_record_id)
    /\ cpc' = [cpc EXCEPT ![c] = "idle"]
    /\ creq' = [creq EXCEPT ![c] = NoReq]
    /\ alone' = [d \in Callers |-> FALSE]
    /\ UNCHANGED << aux, werror, wadded >>
    /\ UNCHANGED << documents, links, generated, queue, enqueued, callsLeft, wpc, wtask,
                    wres, snap, lpos >>
    /\ trip' = TripAfter("deleted", creq[c].media_record_id)

(***************************************************************************)
(* __del__: the attribute is rebound to False (the Event object the worker *)
(* thread holds is not touched), then the connection is closed.  The       *)
(* service object can only be collected when nothing refers to it: no call *)
(* is running and no task (a closure over self) is queued or executing.    *)
(***************************************************************************)
Destroy ==
    /\ keepAliveAttr = "event"
    /\ \A c \in Callers : cpc[c] \in {"idle", "off"}
    /\ queue = << >>
    /\ wpc # "ingest"
    /\ keepAliveAttr' = "False"
    /\ keepAliveEvent' = keepAliveEvent
    /\ cpc' = [c \in Callers |-> "off"]
    /\ alone' = [d \in Callers |-> FALSE]
    /\ UNCHANGED << documents, videos, links, generated, queue, enqueued, callsLeft, wpc,
                    wtask, wres, creq, snap, lpos, werror, wadded, sreq, sres,
                    glres, glout, pdfVars >>
    /\ UNCHANGED trip

(***************************************************************************)
(* semantic_search(query_text, count, media_record_blacklist,              *)
(* media_record_whitelist), on a caller thread: one SELECT, then the       *)
(* result rows are trimmed and wrapped                                      *)
(***************************************************************************)
Null == "NULL"

\* embedding <=> query_embedding, the cosine distance, for vectors of length 1
CosineDistance(u, v) == 1 - (u[1] * v[1] + u[2] * v[2])

\* a bug the filter could have: the blacklist is not applied
InBlacklistNever(media_record, blacklist) == FALSE

\* media_record = ANY(mediaRecordBlacklist)
InBlacklist(media_record, blacklist) == media_record \in blacklist

\* WHERE media_record = ANY(whitelist) AND NOT media_record = ANY(blacklist)
Filtered(table, blacklist, whitelist) ==
    {x \in table : x.media_record \in whitelist /\ ~InBlacklist(x.media_record, blacklist)}

\* the rows of "results", by id, each with its score
Scored(query_embedding, blacklist, whitelist) ==
    { [id |-> x.id, score |-> CosineDistance(x.embedding, query_embedding)] :
        x \in Filtered(documents, blacklist, whitelist)
               \cup Filtered(videos, blacklist, whitelist) }

RECURSIVE OrderByScore(_)
\* ORDER BY score: every order in which the scores do not decrease (the order
\* of rows of equal score is the database's choice)
OrderByScore(rows) ==
    IF rows = {} THEN {<< >>}
    ELSE UNION { { << r >> \o rest : rest \in OrderByScore(rows \ {r}) } :
                 r \in {x \in rows : \A y \in rows : x.score <= y.score} }

\* a bug the query could have: no LIMIT
LimitNone(rows, count) == rows

\* LIMIT count
Limit(rows, count) == SubSeq(rows, 1, IF count < Len(rows) THEN count ELSE Len(rows))

\* the columns the query selects for a row of "results"
ResultRow(r) ==
    IF \E d \in documents : d.id = r.id
    THEN LET d == CHOOSE d \in documents : d.id = r.id
         IN [mediaRecordId |-> d.media_record, source |-> "document", page |-> d.page,
             startTime |-> Null, text |-> d.text, screenText |-> Null,
             transcript |-> Null, score |-> r.score]
    ELSE LET v == CHOOSE v \in videos : v.id = r.id
         IN [mediaRecordId |-> v.media_record, source |-> "video", page |-> Null,
             startTime |-> v.start_time, text |-> Null, screenText |-> v.screen_text,
             transcript |-> v.transcript, score |-> r.score]

\* del result[...] for the columns of the other source
Trimmed(result) ==
    LET gone == IF result.source = "document" THEN {"startTime", "screenText", "transcript"}
                ELSE IF result.source = "video" THEN {"page", "text"}
                ELSE {}
    IN [f \in DOMAIN result \ gone |-> result[f]]

\* the list semantic_search returns for a query_result
SearchResult(query_result) ==
    [i \in 1..Len(query_result) |->
        [score |-> query_result[i].score, mediaRecordSegment |-> Trimmed(query_result[i])]]

\* the SELECT
SearchQuery(c, query_text, count, blacklist, whitelist) ==
    /\ cpc[c] = "idle"
    /\ callsLeft > 0
    /\ callsLeft' = callsLeft - 1
    /\ \E order \in OrderByScore(Scored(SentenceEmbedding(query_text), blacklist, whitelist)) :
          sres' = [sres EXCEPT ![c] = [i \in 1..Len(Limit(order, count)) |->
                                          ResultRow(Limit(order, count)[i])]]
    /\ sreq' = [sreq EXCEPT ![c] = [query_text |-> query_text, count |-> count,
                                    blacklist |-> blacklist, whitelist |-> whitelist]]
    /\ cpc' = [cpc EXCEPT ![c] = "search_return"]
    /\ alone' = Touch(c)
    /\ UNCHANGED << keepAliveEvent, keepAliveAttr, werror, wadded, glres, glout, pdfVars >>
    /\ UNCHANGED << documents, videos, links, generated, queue, enqueued, wpc, wtask, wres,
                    creq, snap, lpos >>
    /\ UNCHANGED trip

\* the rows are trimmed and wrapped, the call returns SearchResult(sres[c])
SearchReturn(c) ==
    /\ cpc[c] = "search_return"
    /\ cpc' = [cpc EXCEPT ![c] = "idle"]
    /\ sreq' = [sreq EXCEPT ![c] = NoSearch]
    /\ sres' = [sres EXCEPT ![c] = << >>]
    /\ alone' = Touch(c)
    /\ UNCHANGED << keepAliveEvent, keepAliveAttr, werror, wadded, glres, glout, pdfVars >>
    /\ UNCHANGED << documents, videos, links, generated, queue, enqueued, callsLeft, wpc,
                    wtask, wres, creq, snap, lpos >>
    /\ UNCHANGED trip

(***************************************************************************)
(* get_media_record_links_for_content(content_id), on a caller thread: the *)
(* SELECT of the content's link rows, the SELECT of the segments they      *)
(* name, then each link is resolved with next(...)                         *)
(***************************************************************************)
\* the first SELECT
GetLinksSelect(c, content_id) ==
    /\ cpc[c] = "idle"
    /\ callsLeft > 0
    /\ callsLeft' = callsLeft - 1
    /\ LET result == SelectSeq(links, LAMBDA l : l.content_id = content_id)
       IN glres' = [glres EXCEPT ![c] =
                       [i \in 1..Len(result) |-> [segment1Id |-> result[i].segment1_id,
                                                   segment2Id |-> result[i].segment2_id]]]
    /\ creq' = [creq EXCEPT ![c] = [content_id |-> content_id, ids |-> {},
                                    media_record_id |-> 0]]
    /\ cpc' = [cpc EXCEPT ![c] = "links_resolve"]
    /\ alone' = Touch(c)
    /\ UNCHANGED << keepAliveEvent, keepAliveAttr, werror, wadded, sreq, sres, glout,
                    pdfVars, trip >>
    /\ UNCHANGED << documents, videos, links, generated, queue, enqueued, wpc, wtask, wres,
                    snap, lpos >>

\* the row of result_segments with this id, trimmed
ResultSegment(id) ==
    IF \E d \in documents : d.id = id
    THEN LET d == CHOOSE d \in documents : d.id = id
         IN [id |-> d.id, mediaRecordId |-> d.media_record, source |-> "document",
             page |-> d.page, text |-> d.text]
    ELSE LET v == CHOOSE v \in videos : v.id = id
         IN [id |-> v.id, mediaRecordId |-> v.media_record, source |-> "video",
             startTime |-> v.start_time, screenText |-> v.screen_text,
             transcript |-> v.transcript]

\* the second SELECT and the list that is returned: next() raises
\* StopIteration when result_segments has no row with a link's segment id
GetLinksResolve(c) ==
    /\ cpc[c] = "links_resolve"
    /\ LET all_segment_ids == {glres[c][i].segment1Id : i \in 1..Len(glres[c])}
                                 \cup {glres[c][i].segment2Id : i \in 1..Len(glres[c])}
           found == {id \in all_segment_ids :
                        \E x \in documents \cup videos : x.id = id}
       IN IF found = all_segment_ids
          THEN glout' = [glout EXCEPT ![c] =
                   [error |-> "none",
                    value |-> [i \in 1..Len(glres[c]) |->
                                 [segment1 |-> ResultSegment(glres[c][i].segment1Id),
                                  segment2 |-> ResultSegment(glres[c][i].segment2Id)]]]]
          ELSE glout' = [glout EXCEPT ![c] = [error |-> "StopIteration", value |-> << >>]]
    /\ cpc' = [cpc EXCEPT ![c] = "links_return"]
    /\ alone' = Touch(c)
    /\ UNCHANGED << keepAliveEvent, keepAliveAttr, werror, wadded, sreq, sres, glres,
                    pdfVars, trip >>
    /\ UNCHANGED << documents, videos, links, generated, queue, enqueued, callsLeft, wpc,
                    wtask, wres, creq, snap, lpos >>

\* the call returns glout[c].value, or the error reaches the caller
GetLinksReturn(c) ==
    /\ cpc[c] = "links_return"
    /\ cpc' = [cpc EXCEPT ![c] = "idle"]
    /\ creq' = [creq EXCEPT ![c] = NoReq]
    /\ glres' = [glres EXCEPT ![c] = << >>]
    /\ glout' = [glout EXCEPT ![c] = NoOutcome]
    /\ alone' = Touch(c)
    /\ UNCHANGED << keepAliveEvent, keepAliveAttr, werror, wadded, sreq, sres, pdfVars, trip >>
    /\ UNCHANGED << documents, videos, links, generated, queue, enqueued, callsLeft, wpc,
                    wtask, wres, snap, lpos >>

Next ==
    \/ \E c \in Callers, m \in MediaRecords : EnqueueIngest(c, m)
    \/ WorkerStart
    \/ WorkerInsert
    \/ WorkerFinish
    \/ \E c \in Callers, content_id \in Contents, ids \in LinkIdLists :
           LinkStart(c, content_id, ids)
    \/ \E c \in Callers : LinkCheck(c)
    \/ \E c \in Callers : LinkInsert(c)
    \/ \E c \in Callers, m \in MediaRecords : DeleteStart(c, m)
    \/ \E c \in Callers : DeleteDocs(c)
    \/ \E c \in Callers : DeleteVideos(c)

Spec == Init /\ [][Next]_vars

SpecSeq == InitSeq /\ [][Next]_vars

\* the queue and its worker alone: no linking, no deletion
InitQueue ==
    /\ InitStore
    /\ NoPdf
    /\ trip = NoTrip
    /\ callsLeft = MaxCallsQueue
    /\ cpc = [c \in Callers |-> "idle"]

NextQueue ==
    \/ \E c \in Callers, m \in MediaRecords : EnqueueIngest(c, m)
    \/ WorkerStart
    \/ WorkerInsert
    \/ WorkerFinish

SpecQueue == InitQueue /\ [][NextQueue]_vars

\* the queue, its worker and the end of the service object; the worker
\* thread keeps being scheduled
NextShutdown ==
    \/ \E c \in Callers, m \in MediaRecords : EnqueueIngest(c, m)
    \/ WorkerStart
    \/ WorkerInsert
    \/ WorkerFinish
    \/ Destroy

SpecShutdown ==
    InitQueue /\ [][NextShutdown]_vars
    /\ WF_vars(WorkerStart) /\ WF_vars(WorkerInsert) /\ WF_vars(WorkerFinish)

\* searches of one caller thread beside ingestion and deletion
Blacklists == {{}, {DocRecord}}
Whitelists == {{}, {VideoRecord}, {DocRecord, VideoRecord}}

InitSearch ==
    /\ InitStore
    /\ NoPdf
    /\ trip = NoTrip
    /\ callsLeft = MaxCallsSearch
    /\ cpc = [c \in Callers |-> IF c = "t1" THEN "idle" ELSE "off"]

NextSearch ==
    \/ \E c \in Callers, m \in MediaRecords : EnqueueIngest(c, m)
    \/ WorkerStart
    \/ WorkerInsert
    \/ WorkerFinish
    \/ \E c \in Callers, m \in MediaRecords : DeleteStart(c, m)
    \/ \E c \in Callers : DeleteDocs(c)
    \/ \E c \in Callers : DeleteVideos(c)
    \/ \E c \in Callers, query_text \in QueryTexts, count \in 0..MaxCount,
          blacklist \in Blacklists, whitelist \in Whitelists :
           SearchQuery(c, query_text, count, blacklist, whitelist)
    \/ \E c \in Callers : SearchReturn(c)

SpecSearch == InitSearch /\ [][NextSearch]_vars

(***************************************************************************)
(* PdfProcessor.process_from_io: the text of each page, stripped; pages     *)
(* without text are left out                                               *)
(***************************************************************************)
\* characters str.strip() removes (two of them)
Whitespace == {" ", "\n"}

\* what tika's "content" can be for a page: None, or a string
TikaContents ==
    { [none |-> TRUE, chars |-> << >>],
      [none |-> FALSE, chars |-> << >>],
      [none |-> FALSE, chars |-> << " ", "\n" >>],
      [none |-> FALSE, chars |-> << "\n", "x", " ", "y", " " >>],
      [none |-> FALSE, chars |-> << "z" >>] }

RECURSIVE LStrip(_)
LStrip(chars) ==
    IF chars # << >> /\ Head(chars) \in Whitespace THEN LStrip(Tail(chars)) ELSE chars

RECURSIVE RStrip(_)
RStrip(chars) ==
    IF chars # << >> /\ chars[Len(chars)] \in Whitespace
    THEN RStrip(SubSeq(chars, 1, Len(chars) - 1)) ELSE chars

\* a bug the loop could have: the text is not stripped
StripNot(chars) == chars

\* page_text.strip()
Strip(chars) == RStrip(LStrip(chars))

RECURSIVE PagesFrom(_, _, _)
\* the loop over range(len(pdf_reader.pages)) from page_index on; the
\* thumbnail of a page is written as its index
PagesFrom(pdf, page_index, pages) ==
    IF page_index >= Len(pdf) THEN pages
    ELSE LET page_text == pdf[page_index + 1]
         IN IF page_text.none THEN PagesFrom(pdf, page_index + 1, pages)
            ELSE IF Strip(page_text.chars) = << >>
                 THEN PagesFrom(pdf, page_index + 1, pages)
                 ELSE PagesFrom(pdf, page_index + 1,
                                Append(pages, << page_index, Strip(page_text.chars),
                                                 page_index, Null >>))

ProcessFromIo(pdf) == [returned |-> TRUE, pages |-> PagesFrom(pdf, 0, << >>)]

\* the service as constructed, and a pdf of up to MaxPages pages
InitPdf ==
    /\ InitStore
    /\ trip = NoTrip
    /\ callsLeft = 0
    /\ cpc = [c \in Callers |-> "off"]
    /\ file \in UNION { [1..n -> TikaContents] : n \in 0..MaxPages }
    /\ document_data = NoDocumentData

\* process_from_io(file)
Process ==
    /\ ~document_data.returned
    /\ document_data' = ProcessFromIo(file)
    /\ UNCHANGED << documents, videos, links, generated, queue, enqueued, callsLeft, wpc,
                    wtask, wres, cpc, creq, snap, lpos, alone, keepAliveEvent,
                    keepAliveAttr, werror, wadded, sreq, sres, trip, glres, glout, file >>

SpecPdf == InitPdf /\ [][Process]_vars

\* requests that never stop, for records whose tasks end without an error;
\* the worker thread keeps being scheduled
InitDrain ==
    /\ InitStore
    /\ NoPdf
    /\ trip = NoTrip
    /\ callsLeft = 0
    /\ cpc = [c \in Callers |-> "idle"]

NextDrain ==
    \/ \E c \in Callers, m \in BlankRecords, follow \in BOOLEAN :
           EnqueueIngestSteady(c, m, follow)
    \/ WorkerStart
    \/ WorkerFinish

SpecDrain ==
    InitDrain /\ [][NextDrain]_vars /\ WF_vars(WorkerStart) /\ WF_vars(WorkerFinish)

\* ingestion whose INSERTs or generator may fail, with searches and linking
\* runs of one caller thread
InitFail ==
    /\ InitStore
    /\ NoPdf
    /\ trip = NoTrip
    /\ callsLeft = MaxCallsFail
    /\ cpc = [c \in Callers |-> IF c = "t1" THEN "idle" ELSE "off"]

NextFail ==
    \/ \E c \in Callers, m \in MediaRecords : EnqueueIngest(c, m)
    \/ WorkerStart
    \/ WorkerInsert
    \/ WorkerFinish
    \/ WorkerInsertFails
    \/ WorkerGenerateFails
    \/ \E c \in Callers, content_id \in Contents, ids \in LinkIdLists :
           LinkStart(c, content_id, ids)
    \/ \E c \in Callers : LinkCheck(c)
    \/ \E c \in Callers : LinkInsert(c)
    \/ \E c \in Callers, query_text \in QueryTexts, count \in 0..MaxCount,
          blacklist \in Blacklists, whitelist \in Whitelists :
           SearchQuery(c, query_text, count, blacklist, whitelist)
    \/ \E c \in Callers : SearchReturn(c)

SpecFail == InitFail /\ [][NextFail]_vars

\* every call of the service, made one after another on one caller thread
InitLinks ==
    /\ InitStore
    /\ NoPdf
    /\ trip = NoTrip
    /\ callsLeft = MaxCallsLinks
    /\ cpc = [c \in Callers |-> IF c = "t1" THEN "idle" ELSE "off"]

NextLinks ==
    \/ Next
    \/ \E c \in Callers, content_id \in Contents : GetLinksSelect(c, content_id)
    \/ \E c \in Callers : GetLinksResolve(c)
    \/ \E c \in Callers : GetLinksReturn(c)

SpecLinks == InitLinks /\ [][NextLinks]_vars

\* ingestion and deletion called from one caller thread, with the round
\* trip of one of the two ingestible records watched
InitTrip ==
    /\ InitStore
    /\ NoPdf
    /\ \E m \in {DocRecord, VideoRecord} : trip = [NoTrip EXCEPT !.record = m]
    /\ callsLeft = MaxCallsTrip
    /\ cpc = [c \in Callers |-> IF c = "t1" THEN "idle" ELSE "off"]

NextTrip ==
    \/ \E c \in Callers, m \in MediaRecords : EnqueueIngest(c, m)
    \/ WorkerStart
    \/ WorkerInsert
    \/ WorkerFinish
    \/ \E c \in Callers, m \in MediaRecords : DeleteStart(c, m)
    \/ \E c \in Callers : DeleteDocs(c)
    \/ \E c \in Callers : DeleteVideos(c)

SpecTrip == InitTrip /\ [][NextTrip]_vars

(***************************************************************************)
(* What the properties below speak of.                                     *)
(***************************************************************************)
\* the ids of the segments stored now
SegmentIds == {d.id : d \in documents} \cup {v.id : v \in videos}

\* the media record a segment id was inserted for (stored now or deleted since)
RecordOfSegment(id) == generated[id - Cardinality(MediaRecords)].media_record
\* the text the segment with this id was inserted with
TextOfSegment(id) == generated[id - Cardinality(MediaRecords)].text

\* the rows of a link table that connect id1 and id2, in either direction
RowsBetween(table, id1, id2) ==
    {i \in 1..Len(table) : {table[i].segment1_id, table[i].segment2_id} = {id1, id2}}

\* a linking run is executing on caller thread c
Linking(c) == cpc[c] \in {"link_check", "link_insert"}

\* the tasks executing now: the worker's ingestion task and the linking runs
TasksInFlight ==
    (IF wpc = "ingest" THEN 1 ELSE 0) + Cardinality({c \in Callers : Linking(c)})

\* no link row refers to a segment that is not stored
NoDanglingLink ==
    \A i \in 1..Len(links) :
        links[i].segment1_id \in SegmentIds /\ links[i].segment2_id \in SegmentIds

\* some caller thread starts a linking run in this step
SomeLinkStart(ids) == \E c \in Callers, content_id \in Contents : LinkStart(c, content_id, ids)

(***************************************************************************)
(* C1. At most one ingestion or linking task is in flight at any time:     *)
(* in no reachable state are two tasks executing.                          *)
(* Violated: the linking task runs on the caller's thread, beside the      *)
(* worker's ingestion task and beside other callers' linking runs.         *)
(***************************************************************************)
C1_AtMostOneTaskInFlight == TasksInFlight <= 1

(***************************************************************************)
(* C2. A task of priority 0 starts executing before a task of priority 1:  *)
(* when the priority 1 task (the linking task) starts, no priority 0 task  *)
(* submitted before it is still waiting in the queue.                      *)
(* Violated: the linking task is called at once, never queued.             *)
(***************************************************************************)
C2_PriorityZeroStartsFirst ==
    [][ (\E ids \in LinkIdLists : SomeLinkStart(ids))
        => \A i \in 1..Len(queue) : ~(queue[i].priority < LinkPriority) ]_vars

(***************************************************************************)
(* C3. A task that raises does not stop the worker: the worker thread is   *)
(* never ended while a task waits in the queue.                            *)
(* Violated: the ValueError leaves _background_task_runner.                *)
(***************************************************************************)
C3_WorkerOutlivesRaisingTask == wpc = "crashed" => queue = << >>

(***************************************************************************)
(* C4. When delete_entries_of_media_record(id) returns, no other thread    *)
(* having stepped during the call and no other call or task being under    *)
(* way, no segment of record id is stored and no link row refers to a      *)
(* segment that is not stored.                                             *)
(* Violated: the DELETE on media_record_links compares segment ids with    *)
(* the media record id, so it removes nothing.                             *)
(***************************************************************************)
C4_DeleteLeavesNoSegmentNoDanglingLink ==
    [][ \A c \in Callers :
          (/\ cpc[c] = "del_videos" /\ cpc'[c] = "idle" /\ alone[c]
           /\ \A d \in Callers \ {c} : cpc[d] \in {"idle", "off"}
           /\ wpc # "ingest")
          => /\ \A d \in documents' : d.media_record # creq[c].media_record_id
             /\ \A v \in videos' : v.media_record # creq[c].media_record_id
             /\ NoDanglingLink' ]_vars

(***************************************************************************)
(* C5. Linking is idempotent under sequential calls: when a linking run    *)
(* returns and the segments of its records are those it queried, every     *)
(* pair of them from distinct records with ratio > 0.9 has exactly one     *)
(* link row (counting both directions and every content id); and a run     *)
(* never inserts a row for a pair that has one, so a run on a store the    *)
(* previous run has left creates none.                                     *)
(***************************************************************************)
C5_LinkingIdempotent ==
    /\ [](\A c \in Callers :
            cpc[c] = "link_insert"
            => RowsBetween(links, snap[c][lpos[c]][1].id, snap[c][lpos[c]][2].id) = {})
    /\ [][ \A c \in Callers :
             (Linking(c) /\ cpc'[c] = "idle" /\ Pairs(SegmentQuery(creq[c].ids)) = snap[c])
             => \A k \in 1..Len(snap[c]) :
                    RatioAboveThreshold(snap[c][k][1].text, snap[c][k][2].text)
                    => Cardinality(RowsBetween(links', snap[c][k][1].id, snap[c][k][2].id)) = 1
       ]_vars

\* a later run comes to a similar pair that an earlier run has linked, in the
\* same direction, and whose segments are both still stored
C5_Witness ==
    \E c \in Callers :
        /\ cpc[c] = "link_check"
        /\ LET p == snap[c][lpos[c]]
           IN /\ RatioAboveThreshold(p[1].text, p[2].text)
              /\ \E i \in 1..Len(links) :
                     links[i].segment1_id = p[1].id /\ links[i].segment2_id = p[2].id
              /\ {p[1].id, p[2].id} \subseteq SegmentIds

(***************************************************************************)
(* C6. The link table never holds two rows with the same content_id and    *)
(* the same unordered segment pair.                                        *)
(* Violated by overlapping linking runs on two caller threads: both find   *)
(* no row, both insert.                                                    *)
(***************************************************************************)
C6_NoDuplicateLinkPerContent ==
    \A i, j \in 1..Len(links) :
        (i # j /\ links[i].content_id = links[j].content_id)
        => {links[i].segment1_id, links[i].segment2_id}
           # {links[j].segment1_id, links[j].segment2_id}

(***************************************************************************)
(* C7. No link row connects two segments of the same media record.         *)
(***************************************************************************)
C7_NoLinkWithinOneMediaRecord ==
    \A i \in 1..Len(links) :
        RecordOfSegment(links[i].segment1_id) # RecordOfSegment(links[i].segment2_id)

\* a link row between two stored segments, while its record has two segments
C7_Witness ==
    \E i \in 1..Len(links) :
        /\ {links[i].segment1_id, links[i].segment2_id} \subseteq SegmentIds
        /\ \E d1, d2 \in documents : d1.id # d2.id /\ d1.media_record = d2.media_record

(***************************************************************************)
(* C8. Under any interleaving of deletion with linking, ingestion and      *)
(* search, no reachable state holds a link row that refers to a segment    *)
(* that is not stored.                                                     *)
(* Violated: see C4; the rows of a deleted record's segments stay.         *)
(***************************************************************************)
C8_NoDanglingLinkEver == NoDanglingLink

(***************************************************************************)
(* C9. Linking runs after ingestion: when a linking run starts for a list  *)
(* of media records, no ingestion task requested before it for one of      *)
(* those records is still waiting in the queue or executing.               *)
(* Violated: the linking task is called at once, never queued.             *)
(***************************************************************************)
C9_LinkingAfterIngestion ==
    [][ \A ids \in LinkIdLists :
          SomeLinkStart(ids)
          => /\ \A i \in 1..Len(queue) : queue[i].media_record_id \notin ids
             /\ ~(wpc = "ingest" /\ wtask.media_record_id \in ids) ]_vars

(***************************************************************************)
(* C10. Items of equal priority are executed in the order they were        *)
(* enqueued: when the worker dequeues an item, no item of the same         *)
(* priority that was put earlier is left in the queue.                     *)
(* Violated with four items waiting: __lt__ compares the priority alone,   *)
(* and heappop's sift moves the last item over the earlier ones.           *)
(***************************************************************************)
C10_FifoOnEqualPriority ==
    [][ (wpc = "get" /\ wpc' # "get")
        => \A i \in 1..Len(queue') :
               queue'[i].priority = wtask'.priority => wtask'.seq < queue'[i].seq ]_vars

(***************************************************************************)
(* C11. Shutdown: once the service object has been destroyed (__del__ has  *)
(* run, which is to clear the liveness flag), the worker thread eventually *)
(* ends: it leaves its loop (or an uncaught error has ended it before).    *)
(* Violated: __del__ rebinds the attribute to False and never calls        *)
(* clear() on the Event, so keep_alive.is_set() stays true and the worker  *)
(* polls for ever.                                                         *)
(***************************************************************************)
C11_WorkerExitsAfterShutdown ==
    (keepAliveAttr = "False") ~> (wpc \in {"exited", "crashed"})

(***************************************************************************)
(* C12. Enqueue-style operations return without executing the task body:   *)
(* no caller thread is ever inside the body of an ingestion or linking     *)
(* task (and so no error of the body can reach the caller).                *)
(* Violated by the linking entry point, which calls the task itself.       *)
(***************************************************************************)
C12_EnqueueDoesNotRunTaskBody == \A c \in Callers : ~Linking(c)

(***************************************************************************)
(* C13. Ingesting a record whose type is none of DOCUMENT, PRESENTATION,   *)
(* VIDEO fails with an error naming the type and writes no segment: the    *)
(* step that runs such a task ends it with a ValueError carrying the type, *)
(* leaves documents and videos as they were, and no stored segment ever    *)
(* belongs to a record of such a type.                                     *)
(***************************************************************************)
C13_UnsupportedTypeFailsWritesNothing ==
    [][ /\ (wpc = "get" /\ wpc' # "get"
            /\ RecordType(wtask'.media_record_id) \notin {"DOCUMENT", "PRESENTATION", "VIDEO"})
           => /\ wpc' = "crashed"
              /\ werror' = [exc |-> "ValueError", type |-> RecordType(wtask'.media_record_id)]
              /\ documents' = documents
              /\ videos' = videos
        /\ \A r \in documents' \cup videos' :
               RecordType(r.media_record) \in {"DOCUMENT", "PRESENTATION", "VIDEO"} ]_vars

\* the task of the QUIZ record has failed while segments of other records are stored
C13_Witness ==
    /\ wpc = "crashed"
    /\ wtask.media_record_id = QuizRecord
    /\ werror.type = "QUIZ"
    /\ documents # {}

(***************************************************************************)
(* C14. An ingestion task that completes for a DOCUMENT or PRESENTATION    *)
(* record has added exactly one documents row per result of the PDF        *)
(* embedding generator and no videos row; one that completes for a VIDEO   *)
(* record has added exactly one videos row per result of the video         *)
(* embedding generator and no documents row; every row a task adds carries *)
(* the task's media record id.                                             *)
(***************************************************************************)
C14_OneSegmentPerResult ==
    [][ /\ (wpc = "ingest" /\ wpc' = "get") =>
             LET m == wtask.media_record_id
             IN /\ RecordType(m) \in {"DOCUMENT", "PRESENTATION"} =>
                      wadded = [documents |-> Len(PdfEmbeddingResults(m)), videos |-> 0]
                /\ RecordType(m) = "VIDEO" =>
                      wadded = [documents |-> 0, videos |-> Len(VideoEmbeddingResults(m))]
        /\ (wpc = "ingest" /\ wadded' # wadded) =>
             \A r \in (documents' \ documents) \cup (videos' \ videos) :
                r.media_record = wtask.media_record_id ]_vars

\* both records have been ingested: two pages and one video section
C14_Witness ==
    /\ wpc = "get"
    /\ Cardinality({r \in documents : r.media_record = DocRecord}) = 2
    /\ Cardinality({r \in videos : r.media_record = VideoRecord}) = 1

(***************************************************************************)
(* C15. A linking run called with (content_id, media_record_ids) inserts a *)
(* link between two segments only if both were inserted for media records  *)
(* of media_record_ids, the two records differ, and the similarity of the  *)
(* two texts, 2 * lcs / (sum of the lengths), is strictly greater than     *)
(* 9/10; the inserted link carries the run's content_id.  So no link ever  *)
(* joins two segments whose similarity is 9/10 or lower.                   *)
(***************************************************************************)
C15_LinkOnlyAboveThreshold ==
    [][ /\ \A c \in Callers :
              (cpc[c] = "link_insert" /\ cpc'[c] # "link_insert") =>
                 /\ Len(links') = Len(links) + 1
                 /\ LET l == links'[Len(links')]
                    IN /\ l.content_id = creq[c].content_id
                       /\ RecordOfSegment(l.segment1_id) \in creq[c].ids
                       /\ RecordOfSegment(l.segment2_id) \in creq[c].ids
                       /\ RecordOfSegment(l.segment1_id) # RecordOfSegment(l.segment2_id)
        /\ \A i \in 1..Len(links') :
              LET a == TextOfSegment(links'[i].segment1_id)
                  b == TextOfSegment(links'[i].segment2_id)
              IN 10 * 2 * Lcs(a, b) > 9 * (Len(a) + Len(b)) ]_vars

\* a run has linked its first pair (TextA, TextB) and has gone past its second
\* pair (TextC, TextB), whose similarity is just 9/10, without linking it
C15_Witness ==
    \E c \in Callers :
        /\ cpc[c] = "link_check"
        /\ lpos[c] >= 3
        /\ snap[c][1][1].text = TextA /\ snap[c][1][2].text = TextB
        /\ snap[c][2][1].text = TextC /\ snap[c][2][2].text = TextB
        /\ 10 * 2 * Lcs(TextC, TextB) = 9 * (Len(TextC) + Len(TextB))
        /\ \E i \in 1..Len(links) :
              /\ links[i].content_id = creq[c].content_id
              /\ links[i].segment1_id = snap[c][1][1].id
              /\ links[i].segment2_id = snap[c][1][2].id
        /\ ~\E i \in 1..Len(links) :
              {links[i].segment1_id, links[i].segment2_id}
                 = {snap[c][2][1].id, snap[c][2][2].id}

(***************************************************************************)
(* C16. Every result of a search is a segment stored when the query ran,   *)
(* of a media record that is in the whitelist and not in the blacklist; a  *)
(* search with an empty whitelist returns the empty sequence.              *)
(***************************************************************************)
C16_SearchHonoursWhitelistAndBlacklist ==
    [][ \A c \in Callers :
          (cpc[c] = "idle" /\ cpc'[c] = "search_return") =>
             LET res == SearchResult(sres'[c])
                 req == sreq'[c]
             IN /\ \A i \in 1..Len(res) :
                      LET seg == res[i].mediaRecordSegment
                      IN /\ seg.mediaRecordId \in req.whitelist
                         /\ seg.mediaRecordId \notin req.blacklist
                         /\ \/ /\ seg.source = "document"
                               /\ \E d \in documents :
                                     /\ d.media_record = seg.mediaRecordId
                                     /\ d.page = seg.page /\ d.text = seg.text
                            \/ /\ seg.source = "video"
                               /\ \E v \in videos :
                                     /\ v.media_record = seg.mediaRecordId
                                     /\ v.start_time = seg.startTime
                                     /\ v.screen_text = seg.screenText
                                     /\ v.transcript = seg.transcript
                /\ req.whitelist = {} => res = << >> ]_vars

\* a search that had the document record on both lists, with that record's
\* segments stored, has returned the video's segment only
C16_Witness ==
    \E c \in Callers :
        /\ cpc[c] = "search_return"
        /\ sreq[c].blacklist = {DocRecord}
        /\ sreq[c].whitelist = {DocRecord, VideoRecord}
        /\ \E d \in documents : d.media_record = DocRecord
        /\ Len(sres[c]) = 1
        /\ SearchResult(sres[c])[1].mediaRecordSegment.mediaRecordId = VideoRecord

(***************************************************************************)
(* C17. A search with count = N returns at most N results, in order of     *)
(* non-decreasing score, and as many as min(N, size of the filtered pool), *)
(* the pool being the document and the video segments that pass the        *)
(* filter; each result's score is the distance of its segment.             *)
(***************************************************************************)
C17_SearchCountAndOrder ==
    [][ \A c \in Callers :
          (cpc[c] = "idle" /\ cpc'[c] = "search_return") =>
             LET res == SearchResult(sres'[c])
                 req == sreq'[c]
                 pool == Cardinality({d \in documents : d.media_record \in req.whitelist
                                                         \ req.blacklist})
                         + Cardinality({v \in videos : v.media_record \in req.whitelist
                                                         \ req.blacklist})
             IN /\ Len(res) <= req.count
                /\ \A i \in 1..(Len(res) - 1) : res[i].score <= res[i + 1].score
                /\ Len(res) = IF req.count < pool THEN req.count ELSE pool
                /\ \A i \in 1..Len(res) :
                      res[i].score = res[i].mediaRecordSegment.score ]_vars

\* a search over three stored segments with count 2 has returned a video
\* segment before a document segment
C17_Witness ==
    \E c \in Callers :
        /\ cpc[c] = "search_return"
        /\ sreq[c].count = 2
        /\ Cardinality(documents) + Cardinality(videos) >= 3
        /\ Len(sres[c]) = 2
        /\ sres[c][1].source = "video" /\ sres[c][2].source = "document"
        /\ sres[c][1].score < sres[c][2].score

(***************************************************************************)
(* C18. Round trip: a record none of whose segments is stored is ingested, *)
(* then delete_entries_of_media_record is called on it and returns, then   *)
(* it is ingested again, with no other ingestion or deletion of that       *)
(* record in between or overlapping.  When the second ingestion has        *)
(* returned, as many segments are stored for the record as there were when *)
(* the first one had returned (the generators being deterministic).        *)
(***************************************************************************)
C18_RoundTripSameSegmentCount ==
    trip.phase = "reingested" => SegmentCount(trip.record) = trip.count

\* the round trip of the document record is complete: two segments again
C18_Witness ==
    /\ trip.phase = "reingested"
    /\ trip.record = DocRecord
    /\ trip.count = 2
    /\ SegmentCount(DocRecord) = 2

(***************************************************************************)
(* C19. process_from_io returns exactly one page entry for each page whose *)
(* extracted text is not None and not empty once its whitespace is         *)
(* stripped, in page order, each with the page's original (0-based) index  *)
(* and the stripped text; so a 3-page pdf whose second page has no text    *)
(* gives exactly 2 entries.                                                *)
(***************************************************************************)
C19_OneEntryPerPageWithText ==
    document_data.returned =>
        LET pages == document_data.pages
            HasText(i) == /\ ~file[i + 1].none
                          /\ \E k \in 1..Len(file[i + 1].chars) :
                                file[i + 1].chars[k] \notin Whitespace
            kept == {i \in 0..(Len(file) - 1) : HasText(i)}
        IN /\ Len(pages) = Cardinality(kept)
           /\ \A k \in 1..Len(pages) : pages[k][1] \in kept
           /\ \A k \in 1..(Len(pages) - 1) : pages[k][1] < pages[k + 1][1]
           /\ \A k \in 1..Len(pages) :
                 LET orig == file[pages[k][1] + 1].chars
                     text == pages[k][2]
                 IN /\ text # << >>
                    /\ text[1] \notin Whitespace
                    /\ text[Len(text)] \notin Whitespace
                    /\ \E i \in 1..Len(orig) :
                          /\ text = SubSeq(orig, i, i + Len(text) - 1)
                          /\ \A j \in 1..Len(orig) :
                                (j < i \/ j > i + Len(text) - 1) => orig[j] \in Whitespace
           /\ (Len(file) = 3 /\ HasText(0) /\ ~HasText(1) /\ HasText(2)) =>
                 (Len(pages) = 2 /\ pages[1][1] = 0 /\ pages[2][1] = 2)

\* a 3-page pdf whose second page has only whitespace and whose third page
\* has text inside whitespace has been processed: entries for pages 0 and 2
C19_Witness ==
    /\ document_data.returned
    /\ Len(file) = 3
    /\ file[2] = [none |-> FALSE, chars |-> << " ", "\n" >>]
    /\ file[3].chars = << "\n", "x", " ", "y", " " >>
    /\ Len(document_data.pages) = 2
    /\ document_data.pages[2][1] = 2
    /\ document_data.pages[2][2] = << "x", " ", "y" >>

(***************************************************************************)
(* C20. In every reachable state a call of                                 *)
(* get_media_record_links_for_content(content_id) ends without an error    *)
(* and returns one {segment1, segment2} pair per link row it selected for  *)
(* the content, each resolved to the segment the row names.                *)
(* Violated: delete_entries_of_media_record leaves the links of the        *)
(* deleted record's segments in place, and the lookup of a segment that is *)
(* gone raises StopIteration.                                              *)
(***************************************************************************)
C20_GetLinksCompletes ==
    \A c \in Callers :
        cpc[c] = "links_return" =>
            /\ glout[c].error = "none"
            /\ Len(glout[c].value) = Len(glres[c])
            /\ \A i \in 1..Len(glres[c]) :
                  /\ glout[c].value[i].segment1.id = glres[c][i].segment1Id
                  /\ glout[c].value[i].segment2.id = glres[c][i].segment2Id

(***************************************************************************)
(* C24. The existence check does not look at content_id: with linking runs *)
(* made one after another, the link table never holds two rows for the     *)
(* same unordered segment pair, whatever their content ids; a pair linked  *)
(* under one content gets no row when a run is made for another content    *)
(* with the same media records.                                            *)
(***************************************************************************)
C24_OneLinkPerPairAcrossContents ==
    \A i, j \in 1..Len(links) :
        i # j => {links[i].segment1_id, links[i].segment2_id}
                 # {links[j].segment1_id, links[j].segment2_id}

\* a run for one content has gone past a similar pair that is linked under
\* the other content, and the pair still has that one row only
C24_Witness ==
    \E c \in Callers :
        /\ Linking(c)
        /\ lpos[c] >= 2
        /\ 10 * 2 * Lcs(snap[c][1][1].text, snap[c][1][2].text)
              > 9 * (Len(snap[c][1][1].text) + Len(snap[c][1][2].text))
        /\ \E i \in 1..Len(links) :
              /\ links[i].content_id # creq[c].content_id
              /\ {links[i].segment1_id, links[i].segment2_id}
                    = {snap[c][1][1].id, snap[c][1][2].id}
        /\ Cardinality({i \in 1..Len(links) :
                           {links[i].segment1_id, links[i].segment2_id}
                             = {snap[c][1][1].id, snap[c][1][2].id}}) = 1

(***************************************************************************)
(* C23. delete_entries_of_media_record(id) leaves every segment of another *)
(* media record and every link neither of whose segments was inserted for  *)
(* record id as it is: each of its three DELETE statements keeps those     *)
(* rows (and the link rows keep their order), and touches no other table.  *)
(***************************************************************************)
C23_DeleteLeavesOtherRecordsAlone ==
    [][ \A c \in Callers :
          LET Unrelated(l, m) == /\ RecordOfSegment(l.segment1_id) # m
                                 /\ RecordOfSegment(l.segment2_id) # m
          IN /\ (cpc[c] = "idle" /\ cpc'[c] = "del_docs") =>
                  /\ SelectSeq(links', LAMBDA l : Unrelated(l, creq'[c].media_record_id))
                       = SelectSeq(links, LAMBDA l : Unrelated(l, creq'[c].media_record_id))
                  /\ documents' = documents
                  /\ videos' = videos
             /\ (cpc[c] = "del_docs" /\ cpc'[c] = "del_videos") =>
                  /\ {d \in documents' : d.media_record # creq[c].media_record_id}
                       = {d \in documents : d.media_record # creq[c].media_record_id}
                  /\ videos' = videos
                  /\ links' = links
             /\ (cpc[c] = "del_videos" /\ cpc'[c] = "idle") =>
                  /\ {v \in videos' : v.media_record # creq[c].media_record_id}
                       = {v \in videos : v.media_record # creq[c].media_record_id}
                  /\ documents' = documents
                  /\ links' = links ]_vars

\* a delete of the document record has removed its pages; the video
\* record's segment is stored as before
C23_Witness ==
    \E c \in Callers :
        /\ cpc[c] = "del_videos"
        /\ creq[c].media_record_id = DocRecord
        /\ \E n \in 1..Len(generated) : generated[n].media_record = DocRecord
        /\ ~\E d \in documents : d.media_record = DocRecord
        /\ \E v \in videos : v.media_record = VideoRecord

(***************************************************************************)
(* C21. Partial ingestion is not rolled back.  When an ingestion task has  *)
(* failed after k INSERTs (a database error at an INSERT; k = 0 when the   *)
(* generator fails, which is before the first INSERT), exactly the k rows  *)
(* it inserted are stored for it, the failing step itself changes no       *)
(* table, and afterwards a search whose filter admits the record and whose *)
(* count covers the pool returns each of them, and a linking run over the  *)
(* record visits each of them.                                             *)
(***************************************************************************)
C21_PartialIngestionStays ==
    [][ LET Failed == wpc = "crashed" /\ werror.exc \in {"psycopg.Error", "GeneratorError"}
            m == wtask.media_record_id
            k == wadded.documents + wadded.videos
            ids == {Cardinality(MediaRecords) + n : n \in (Len(generated) - k + 1)..Len(generated)}
            Stored == /\ Cardinality({d \in documents : d.id \in ids /\ d.media_record = m})
                           = wadded.documents
                      /\ Cardinality({v \in videos : v.id \in ids /\ v.media_record = m})
                           = wadded.videos
        IN /\ (wpc = "ingest" /\ wpc' = "crashed") =>
                (documents' = documents /\ videos' = videos /\ wadded' = wadded)
           /\ (wpc = "get" /\ wpc' = "crashed") => wadded' = [documents |-> 0, videos |-> 0]
           /\ Failed' => Stored'
           /\ \A c \in Callers :
                 (Failed /\ cpc[c] = "idle" /\ cpc'[c] = "search_return"
                  /\ m \in sreq'[c].whitelist \ sreq'[c].blacklist
                  /\ sreq'[c].count >= Cardinality({d \in documents :
                                            d.media_record \in sreq'[c].whitelist
                                                                \ sreq'[c].blacklist})
                                        + Cardinality({v \in videos :
                                            v.media_record \in sreq'[c].whitelist
                                                                \ sreq'[c].blacklist}))
                 => /\ \A d \in {x \in documents : x.id \in ids} :
                         \E i \in 1..Len(sres'[c]) :
                            /\ sres'[c][i].source = "document"
                            /\ sres'[c][i].mediaRecordId = m
                            /\ sres'[c][i].page = d.page
                    /\ \A v \in {x \in videos : x.id \in ids} :
                         \E i \in 1..Len(sres'[c]) :
                            /\ sres'[c][i].source = "video"
                            /\ sres'[c][i].mediaRecordId = m
                            /\ sres'[c][i].startTime = v.start_time
           /\ \A c \in Callers :
                 (Failed /\ cpc[c] = "idle" /\ cpc'[c] = "link_check" /\ m \in creq'[c].ids)
                 => \A id \in ids : \E p \in 1..Len(snap'[c]) : snap'[c][p][1].id = id ]_vars

\* the document record's task has failed at its second INSERT, and a search
\* made after that has returned the one page it had inserted
C21_Witness ==
    \E c \in Callers :
        /\ wpc = "crashed"
        /\ werror.exc = "psycopg.Error"
        /\ wtask.media_record_id = DocRecord
        /\ wadded = [documents |-> 1, videos |-> 0]
        /\ cpc[c] = "search_return"
        /\ Len(sres[c]) = 1
        /\ sres[c][1].mediaRecordId = DocRecord
        /\ sres[c][1].page = 0

(***************************************************************************)
(* C22. With the liveness flag set and no task raising, every task put on  *)
(* the background queue is eventually dequeued and executed: the followed  *)
(* item, once it waits in the queue, is eventually the item the worker     *)
(* runs.                                                                   *)
(* Violated while requests keep coming: items compare by priority alone,   *)
(* and with four items waiting at each get() heappop's sift never moves    *)
(* the item in the second heap slot to the root, so that task waits for    *)
(* ever although the worker never stops taking tasks.                      *)
(***************************************************************************)
C22_EveryTaskEventuallyRuns ==
    (\E i \in 1..Len(queue) : queue[i].seq = 1) ~> (wtask.seq = 1)

====
